---- MODULE Spec2Model ----
(***************************************************************************)
(* math_lib: Mat3 over the scalar type i32, Vec2 over a PartialOrd scalar. *)
(*                                                                         *)
(* The library is a set of pure functions on by-value aggregates.  Every   *)
(* function is an operator below, written as the source computes it; a     *)
(* caller's frame (the operation called, its arguments, the value          *)
(* returned, and whether the call returned or panicked) is the state.      *)
(* Vec3, Mat2, Mat4 and the Trig trait live in files of the crate that     *)
(* mat3.rs imports (vec3.rs, mat2.rs, mat4.rs, traits.rs); the few         *)
(* operations of theirs that mat3.rs calls are written from their          *)
(* documented contract.                                                    *)
(***************************************************************************)
EXTENDS Integers, Sequences, FiniteSets, TLC

VARIABLES pc, op, args, ret

vars == <<pc, op, args, ret>>

(***************************************************************************)
(* Bounds of the input space.                                              *)
(***************************************************************************)
\* scalars range over -1 .. MaxScalar
MaxScalar == 1
\* indices passed to Index / IndexMut range over 0 .. MaxIndex
MaxIndex == 3
\* angles are whole quarter turns 0 .. MaxAngle
MaxAngle == 4

(***************************************************************************)
(* Scalar type T = i32.  Values stay far below 2^31, so +, - and * never    *)
(* overflow here; `/` is Rust's integer division: it truncates toward      *)
(* zero and panics on a zero divisor.                                      *)
(***************************************************************************)
Scalars == (0 - 1) .. MaxScalar

Abs(a) == IF a < 0 THEN 0 - a ELSE a

\* a / b for b # 0, truncating toward zero
ScalarDiv(a, b) ==
    LET q == Abs(a) \div Abs(b)
    IN  IF (a < 0) # (b < 0) THEN 0 - q ELSE q

(***************************************************************************)
(* Vec2                                                                    *)
(***************************************************************************)
(***************************************************************************)
(* Vec2's min, max, clamp and indexing ask of T only PartialOrd and do no  *)
(* arithmetic, so they are modelled for T = f32 as well: the values are    *)
(* the scalars above and NaN, which is unordered with every value, itself  *)
(* included.  NaN is encoded as the integer just above the scalar range.   *)
(***************************************************************************)
NaN == MaxScalar + 1

PartialOrdScalars == Scalars \cup {NaN}

\* a < b and a > b of PartialOrd: false whenever an operand is NaN
Lt(a, b) == a # NaN /\ b # NaN /\ a < b

Gt(a, b) == a # NaN /\ b # NaN /\ a > b

vec2(x, y) == [x |-> x, y |-> y]

Vec2s == [x : PartialOrdScalars, y : PartialOrdScalars]

Vec2_max(self, other) ==
    vec2(IF Lt(self.x, other.x) THEN other.x ELSE self.x,
         IF Lt(self.y, other.y) THEN other.y ELSE self.y)

Vec2_min(self, other) ==
    vec2(IF Gt(self.x, other.x) THEN other.x ELSE self.x,
         IF Gt(self.y, other.y) THEN other.y ELSE self.y)

\* clamp with the two bounds applied in the other order
Vec2_clamp_MaxFirst(self, min, max) == Vec2_min(Vec2_max(self, min), max)

Vec2_clamp(self, min, max) == Vec2_max(Vec2_min(self, max), min)

\* the place (field) a valid index denotes; "panic" for any other index
Vec2_index(index) ==
    CASE index = 0 -> "x"
      [] index = 1 -> "y"
      [] OTHER     -> "panic"

\* index_mut with only the first arm checked
Vec2_index_mut_NoBound(index) ==
    CASE index = 0 -> "x"
      [] OTHER     -> "y"

Vec2_index_mut(index) ==
    CASE index = 0 -> "x"
      [] index = 1 -> "y"
      [] OTHER     -> "panic"

\* reading / writing through the reference that index / index_mut returned
Deref(v, place) == IF place = "x" THEN v.x ELSE v.y

Store(v, place, val) ==
    IF place = "x" THEN [v EXCEPT !.x = val] ELSE [v EXCEPT !.y = val]

(***************************************************************************)
(* Vec3, Vec4, Mat2: the operations mat3.rs uses                            *)
(***************************************************************************)
vec3(x, y, z) == [x |-> x, y |-> y, z |-> z]

Vec3s == [x : Scalars, y : Scalars, z : Scalars]

vec4(x, y, z, w) == [x |-> x, y |-> y, z |-> z, w |-> w]

dot(a, b) == a.x * b.x + a.y * b.y + a.z * b.z

Vec3_add(a, b) == vec3(a.x + b.x, a.y + b.y, a.z + b.z)

Vec3_div(v, s) == vec3(ScalarDiv(v.x, s), ScalarDiv(v.y, s), ScalarDiv(v.z, s))

Vec3_extend(v, w) == vec4(v.x, v.y, v.z, w)

mat2(x, y) == [x |-> x, y |-> y]

Mat2_det(m) == m.x.x * m.y.y - m.x.y * m.y.x

mat4(x, y, z, w) == [x |-> x, y |-> y, z |-> z, w |-> w]

(***************************************************************************)
(* Trig for the scalar type, on whole quarter turns (cos and sin are then  *)
(* exact in the scalar type)                                               *)
(***************************************************************************)
Angles == 0 .. MaxAngle

cos(angle) ==
    CASE angle % 4 = 0 -> 1
      [] angle % 4 = 1 -> 0
      [] angle % 4 = 2 -> 0 - 1
      [] OTHER         -> 0

sin(angle) ==
    CASE angle % 4 = 0 -> 0
      [] angle % 4 = 1 -> 1
      [] angle % 4 = 2 -> 0
      [] OTHER         -> 0 - 1

(***************************************************************************)
(* Mat3: three row vectors x, y, z                                         *)
(***************************************************************************)
mat3(x, y, z) == [x |-> x, y |-> y, z |-> z]

Mat3s == [x : Vec3s, y : Vec3s, z : Vec3s]

\* det with the sign of the last term flipped
Mat3_det_LastTermPlus(self) ==
    LET x == self.x
        y == self.y
        z == self.z
    IN    x.x * y.y * z.z
        + x.y * y.z * z.x
        + x.z * y.x * z.y
        - x.x * y.z * z.y
        - x.y * y.x * z.z
        + x.z * y.y * z.x

Mat3_det(self) ==
    LET x == self.x
        y == self.y
        z == self.z
    IN    x.x * y.y * z.z
        + x.y * y.z * z.x
        + x.z * y.x * z.y
        - x.x * y.z * z.y
        - x.y * y.x * z.z
        - x.z * y.y * z.x

\* cofactor with the middle entry of the first row not negated
Mat3_cofactor_MissingNeg(self) ==
    LET x == self.x
        y == self.y
        z == self.z
    IN  mat3(
            vec3(
                Mat2_det(mat2(vec2(y.y, y.z), vec2(z.y, z.z))),
                Mat2_det(mat2(vec2(y.x, y.z), vec2(z.x, z.z))),
                Mat2_det(mat2(vec2(y.x, y.y), vec2(z.x, z.y)))),
            vec3(
                0 - Mat2_det(mat2(vec2(x.y, x.z), vec2(z.y, z.z))),
                Mat2_det(mat2(vec2(x.x, x.z), vec2(z.x, z.z))),
                0 - Mat2_det(mat2(vec2(x.x, x.y), vec2(z.x, z.y)))),
            vec3(
                Mat2_det(mat2(vec2(x.y, x.z), vec2(y.y, y.z))),
                0 - Mat2_det(mat2(vec2(x.x, x.z), vec2(y.x, y.z))),
                Mat2_det(mat2(vec2(x.x, x.y), vec2(y.x, y.y)))))

Mat3_cofactor(self) ==
    LET x == self.x
        y == self.y
        z == self.z
    IN  mat3(
            vec3(
                Mat2_det(mat2(vec2(y.y, y.z), vec2(z.y, z.z))),
                0 - Mat2_det(mat2(vec2(y.x, y.z), vec2(z.x, z.z))),
                Mat2_det(mat2(vec2(y.x, y.y), vec2(z.x, z.y)))),
            vec3(
                0 - Mat2_det(mat2(vec2(x.y, x.z), vec2(z.y, z.z))),
                Mat2_det(mat2(vec2(x.x, x.z), vec2(z.x, z.z))),
                0 - Mat2_det(mat2(vec2(x.x, x.y), vec2(z.x, z.y)))),
            vec3(
                Mat2_det(mat2(vec2(x.y, x.z), vec2(y.y, y.z))),
                0 - Mat2_det(mat2(vec2(x.x, x.z), vec2(y.x, y.z))),
                Mat2_det(mat2(vec2(x.x, x.y), vec2(y.x, y.y)))))

Mat3_transpose(self) ==
    mat3(
        vec3(self.x.x, self.y.x, self.z.x),
        vec3(self.x.y, self.y.y, self.z.y),
        vec3(self.x.z, self.y.z, self.z.z))

Mat3_adjoint(self) == Mat3_transpose(Mat3_cofactor(self))

\* inv dividing the cofactor matrix, not its transpose
Mat3_inv_OfCofactor(self) ==
    LET m == Mat3_cofactor(self)
    IN  mat3(Vec3_div(m.x, Mat3_det(self)),
             Vec3_div(m.y, Mat3_det(self)),
             Vec3_div(m.z, Mat3_det(self)))

\* defined for det # 0 only: with det = 0 the scalar division panics
Mat3_inv(self) ==
    LET m == Mat3_adjoint(self)
    IN  mat3(Vec3_div(m.x, Mat3_det(self)),
             Vec3_div(m.y, Mat3_det(self)),
             Vec3_div(m.z, Mat3_det(self)))

Mat3_ident ==
    mat3(
        vec3(1, 0, 0),
        vec3(0, 1, 0),
        vec3(0, 0, 1))

\* apply_to with the second row used twice
Mat3_apply_to_RowTwice(self, v) ==
    vec3(
        dot(self.x, v),
        dot(self.y, v),
        dot(self.y, v))

Mat3_apply_to(self, v) ==
    vec3(
        dot(self.x, v),
        dot(self.y, v),
        dot(self.z, v))

\* extend with the same component of right appended to every row
Mat3_extend_SameRight(self, right, bottom, corner) ==
    mat4(
        Vec3_extend(self.x, right.x),
        Vec3_extend(self.y, right.x),
        Vec3_extend(self.z, right.x),
        Vec3_extend(bottom, corner))

Mat3_extend(self, right, bottom, corner) ==
    mat4(
        Vec3_extend(self.x, right.x),
        Vec3_extend(self.y, right.y),
        Vec3_extend(self.z, right.z),
        Vec3_extend(bottom, corner))

Mat3_rotate_x(angle) ==
    mat3(
        vec3(1, 0, 0),
        vec3(0, cos(angle), 0 - sin(angle)),
        vec3(0, sin(angle), cos(angle)))

Mat3_rotate_y(angle) ==
    mat3(
        vec3(cos(angle), 0, sin(angle)),
        vec3(0, 1, 0),
        vec3(0 - sin(angle), 0, cos(angle)))

\* rotate_z with the negated sine in the second row
Mat3_rotate_z_Clockwise(angle) ==
    mat3(
        vec3(cos(angle), sin(angle), 0),
        vec3(0 - sin(angle), cos(angle), 0),
        vec3(0, 0, 1))

Mat3_rotate_z(angle) ==
    mat3(
        vec3(cos(angle), 0 - sin(angle), 0),
        vec3(sin(angle), cos(angle), 0),
        vec3(0, 0, 1))

Mat3_add(self, other) ==
    mat3(Vec3_add(self.x, other.x), Vec3_add(self.y, other.y), Vec3_add(self.z, other.z))

\* mul taking dot products with the rows of other, not its columns
Mat3_mul_NoTranspose(self, other) ==
    mat3(
        vec3(dot(self.x, other.x), dot(self.x, other.y), dot(self.x, other.z)),
        vec3(dot(self.y, other.x), dot(self.y, other.y), dot(self.y, other.z)),
        vec3(dot(self.z, other.x), dot(self.z, other.y), dot(self.z, other.z)))

\* mul with the first row repeated in the first entry of the second row
Mat3_mul_RowTypo(self, other) ==
    LET t == Mat3_transpose(other)
    IN  mat3(
            vec3(dot(self.x, t.x), dot(self.x, t.y), dot(self.x, t.z)),
            vec3(dot(self.x, t.x), dot(self.y, t.y), dot(self.y, t.z)),
            vec3(dot(self.z, t.x), dot(self.z, t.y), dot(self.z, t.z)))

Mat3_mul(self, other) ==
    LET t == Mat3_transpose(other)
    IN  mat3(
            vec3(dot(self.x, t.x), dot(self.x, t.y), dot(self.x, t.z)),
            vec3(dot(self.y, t.x), dot(self.y, t.y), dot(self.y, t.z)),
            vec3(dot(self.z, t.x), dot(self.z, t.y), dot(self.z, t.z)))

(***************************************************************************)
(* Index view of the named fields: row 0, 1, 2 of a matrix is its field    *)
(* x, y, z, and so is component 0, 1, 2 (3) of a vector.                   *)
(***************************************************************************)
Comp(v, j) ==
    CASE j = 0 -> v.x
      [] j = 1 -> v.y
      [] j = 2 -> v.z
      [] OTHER -> v.w

Row(m, i) ==
    CASE i = 0 -> m.x
      [] i = 1 -> m.y
      [] i = 2 -> m.z
      [] OTHER -> m.w

Entry(m, i, j) == Comp(Row(m, i), j)

(***************************************************************************)
(* Argument values.  A call with one matrix argument is tried on every     *)
(* matrix over Scalars.  Calls with several aggregate arguments draw their *)
(* matrices from Mat3Gens: the matrices with at most one nonzero entry,    *)
(* the identity plus such a matrix, and the ramps, whose nine entries      *)
(* s, s+1, .., s+8 are pairwise distinct.                                  *)
(***************************************************************************)
FromRows(f) ==
    mat3(
        vec3(f[0][0], f[0][1], f[0][2]),
        vec3(f[1][0], f[1][1], f[1][2]),
        vec3(f[2][0], f[2][1], f[2][2]))

Single(i, j, s) ==
    FromRows([r \in 0 .. 2 |-> [c \in 0 .. 2 |-> IF r = i /\ c = j THEN s ELSE 0]])

Ramp(s) == FromRows([r \in 0 .. 2 |-> [c \in 0 .. 2 |-> s + 3 * r + c]])

Singles == { Single(i, j, s) : i \in 0 .. 2, j \in 0 .. 2, s \in Scalars }

Ramps == { Ramp(s) : s \in Scalars }

Mat3Gens == Singles \cup { Mat3_add(Mat3_ident, m) : m \in Singles } \cup Ramps

NoValue == "none"

(***************************************************************************)
(* Calls on one matrix: det, cofactor, adjoint, inv, transpose             *)
(***************************************************************************)
InitMat3 ==
    /\ pc = "call"
    /\ op = "none"
    /\ args \in [self : Mat3s]
    /\ ret = NoValue

Det ==
    /\ pc = "call"
    /\ pc' = "done"
    /\ op' = "det"
    /\ ret' = Mat3_det(args.self)
    /\ UNCHANGED args

Cofactor ==
    /\ pc = "call"
    /\ pc' = "done"
    /\ op' = "cofactor"
    /\ ret' = Mat3_cofactor(args.self)
    /\ UNCHANGED args

Adjoint ==
    /\ pc = "call"
    /\ pc' = "done"
    /\ op' = "adjoint"
    /\ ret' = Mat3_adjoint(args.self)
    /\ UNCHANGED args

\* x / self.det() panics (integer division by zero) when the determinant is 0
Inv ==
    /\ pc = "call"
    /\ op' = "inv"
    /\ IF Mat3_det(args.self) = 0
         THEN pc' = "panic" /\ UNCHANGED ret
         ELSE pc' = "done" /\ ret' = Mat3_inv(args.self)
    /\ UNCHANGED args

Transpose ==
    /\ pc = "call"
    /\ pc' = "done"
    /\ op' = "transpose"
    /\ ret' = Mat3_transpose(args.self)
    /\ UNCHANGED args

NextMat3 == Det \/ Cofactor \/ Adjoint \/ Inv \/ Transpose

SpecMat3 == InitMat3 /\ [][NextMat3]_vars

(***************************************************************************)
(* Matrix products: a * b, and the two bracketings of a * b * c            *)
(***************************************************************************)
InitMul ==
    /\ pc = "call"
    /\ op = "none"
    /\ args \in [self : Mat3Gens, other : Mat3Gens, third : Mat3Gens]
    /\ ret = NoValue

Mul ==
    /\ pc = "call"
    /\ pc' = "done"
    /\ op' = "mul"
    /\ ret' = Mat3_mul(args.self, args.other)
    /\ UNCHANGED args

MulChain ==
    /\ pc = "call"
    /\ pc' = "done"
    /\ op' = "mul_chain"
    /\ ret' = [left  |-> Mat3_mul(Mat3_mul(args.self, args.other), args.third),
               right |-> Mat3_mul(args.self, Mat3_mul(args.other, args.third))]
    /\ UNCHANGED args

NextMul == Mul \/ MulChain

SpecMul == InitMul /\ [][NextMul]_vars

(***************************************************************************)
(* Matrix times vector                                                     *)
(***************************************************************************)
InitApply ==
    /\ pc = "call"
    /\ op = "none"
    /\ args \in [self : Mat3Gens, v1 : Vec3s, v2 : Vec3s]
    /\ ret = NoValue

\* m.apply_to(v1 + v2), and m.apply_to(v1) + m.apply_to(v2)
ApplyTo ==
    /\ pc = "call"
    /\ pc' = "done"
    /\ op' = "apply_to"
    /\ ret' = [sum   |-> Mat3_apply_to(args.self, Vec3_add(args.v1, args.v2)),
               parts |-> Vec3_add(Mat3_apply_to(args.self, args.v1),
                                  Mat3_apply_to(args.self, args.v2))]
    /\ UNCHANGED args

NextApply == ApplyTo

SpecApply == InitApply /\ [][NextApply]_vars

(***************************************************************************)
(* Rotation constructors, and the rotation applied to a vector             *)
(***************************************************************************)
InitRotate ==
    /\ pc = "call"
    /\ op = "none"
    /\ args \in [angle : Angles, v : Vec3s]
    /\ ret = NoValue

Rotated(name, m) ==
    /\ pc = "call"
    /\ pc' = "done"
    /\ op' = name
    /\ ret' = [m |-> m, v |-> Mat3_apply_to(m, args.v)]
    /\ UNCHANGED args

RotateX == Rotated("rotate_x", Mat3_rotate_x(args.angle))

RotateY == Rotated("rotate_y", Mat3_rotate_y(args.angle))

RotateZ == Rotated("rotate_z", Mat3_rotate_z(args.angle))

NextRotate == RotateX \/ RotateY \/ RotateZ

SpecRotate == InitRotate /\ [][NextRotate]_vars

(***************************************************************************)
(* Extension to a 4x4 matrix                                               *)
(***************************************************************************)
InitExtend ==
    /\ pc = "call"
    /\ op = "none"
    /\ args \in [self : Ramps \cup {Mat3_ident}, right : Vec3s, bottom : Vec3s,
                 corner : Scalars]
    /\ ret = NoValue

Extend ==
    /\ pc = "call"
    /\ pc' = "done"
    /\ op' = "extend"
    /\ ret' = Mat3_extend(args.self, args.right, args.bottom, args.corner)
    /\ UNCHANGED args

NextExtend == Extend

SpecExtend == InitExtend /\ [][NextExtend]_vars

(***************************************************************************)
(* Vec2: v[index] and v[index] = val                                       *)
(***************************************************************************)
InitIndex ==
    /\ pc = "call"
    /\ op = "none"
    /\ args \in [self : Vec2s, index : 0 .. MaxIndex, val : PartialOrdScalars]
    /\ ret = NoValue

\* let r = v[index];
Index ==
    /\ pc = "call"
    /\ op' = "index"
    /\ LET place == Vec2_index(args.index)
       IN  IF place = "panic"
             THEN pc' = "panic" /\ UNCHANGED ret
             ELSE pc' = "done"
                  /\ ret' = [place |-> place, value |-> Deref(args.self, place)]
    /\ UNCHANGED args

\* v[index] = val;
IndexMut ==
    /\ pc = "call"
    /\ op' = "index_mut"
    /\ LET place == Vec2_index_mut(args.index)
       IN  IF place = "panic"
             THEN pc' = "panic" /\ UNCHANGED <<ret, args>>
             ELSE pc' = "done"
                  /\ ret' = [place |-> place, value |-> Deref(args.self, place)]
                  /\ args' = [args EXCEPT !.self = Store(args.self, place, args.val)]

NextIndex == Index \/ IndexMut

SpecIndex == InitIndex /\ [][NextIndex]_vars

(***************************************************************************)
(* Vec2: v.max(other), v.min(other), v.clamp(min, max)                     *)
(***************************************************************************)
InitClamp ==
    /\ pc = "call"
    /\ op = "none"
    /\ args \in [self : Vec2s, min : Vec2s, max : Vec2s]
    /\ ret = NoValue

\* v.max(min)
Max ==
    /\ pc = "call"
    /\ pc' = "done"
    /\ op' = "max"
    /\ ret' = Vec2_max(args.self, args.min)
    /\ UNCHANGED args

\* v.min(max)
Min ==
    /\ pc = "call"
    /\ pc' = "done"
    /\ op' = "min"
    /\ ret' = Vec2_min(args.self, args.max)
    /\ UNCHANGED args

Clamp ==
    /\ pc = "call"
    /\ pc' = "done"
    /\ op' = "clamp"
    /\ ret' = Vec2_clamp(args.self, args.min, args.max)
    /\ UNCHANGED args

NextClamp == Max \/ Min \/ Clamp

SpecClamp == InitClamp /\ [][NextClamp]_vars

(***************************************************************************)
(* Properties                                                              *)
(***************************************************************************)
Idx == 0 .. 2

\* every division inv performs on m leaves no remainder
DivisionExact(m) ==
    \A i \in Idx, j \in Idx :
        ScalarDiv(Entry(Mat3_adjoint(m), i, j), Mat3_det(m)) * Mat3_det(m)
            = Entry(Mat3_adjoint(m), i, j)

C2_MulIsRowTimesColumn ==
    (pc = "done" /\ op = "mul")
        => \A i \in Idx, j \in Idx :
              /\ Entry(ret, i, j)
                   = Entry(args.self, i, 0) * Entry(args.other, 0, j)
                   + Entry(args.self, i, 1) * Entry(args.other, 1, j)
                   + Entry(args.self, i, 2) * Entry(args.other, 2, j)
              /\ Entry(Mat3_transpose(args.other), j, i) = Entry(args.other, i, j)

C2_Witness ==
    /\ pc = "done"
    /\ op = "mul"
    /\ args.self \in Ramps
    /\ args.other \in Ramps
    /\ args.self # args.other
    /\ ret # Mat3_mul(args.other, args.self)

\* the two indices of 0 .. 2 other than i, in increasing order
Others(i) ==
    CASE i = 0 -> <<1, 2>>
      [] i = 1 -> <<0, 2>>
      [] OTHER -> <<0, 1>>

\* a*d - b*c of the 2x2 minor of m with row i and column j deleted
MinorDet(m, i, j) ==
    LET r == Others(i)
        c == Others(j)
    IN  Entry(m, r[1], c[1]) * Entry(m, r[2], c[2])
          - Entry(m, r[1], c[2]) * Entry(m, r[2], c[1])

Sign(i, j) == IF (i + j) % 2 = 0 THEN 1 ELSE 0 - 1

\* C3: entry (i, j) of cofactor(M) is (-1)^(i+j) times the determinant of the
\* minor of M with row i and column j deleted.
C3_CofactorIsSignedMinor ==
    (pc = "done" /\ op = "cofactor")
        => \A i \in Idx, j \in Idx :
              Entry(ret, i, j) = Sign(i, j) * MinorDet(args.self, i, j)

C3_Witness ==
    /\ pc = "done"
    /\ op = "cofactor"
    /\ \A i \in Idx, j \in Idx : Entry(ret, i, j) # 0
    /\ ret # Mat3_transpose(ret)

\* C4: M.extend(right, bottom, corner) has M as its top-left 3x3 block, right
\* as the 4th column of rows 0..2, and (bottom, corner) as its 4th row.
C4_ExtendEmbeds ==
    (pc = "done" /\ op = "extend")
        => /\ \A i \in Idx, j \in Idx : Entry(ret, i, j) = Entry(args.self, i, j)
           /\ \A i \in Idx : Entry(ret, i, 3) = Comp(args.right, i)
           /\ \A j \in Idx : Entry(ret, 3, j) = Comp(args.bottom, j)
           /\ Entry(ret, 3, 3) = args.corner

C4_Witness ==
    /\ pc = "done"
    /\ op = "extend"
    /\ args.self \in Ramps
    /\ args.right.x # args.right.y
    /\ args.right.y # args.right.z
    /\ args.right # args.bottom
    /\ args.corner # args.bottom.z
    /\ args.corner # args.right.z

\* C5: (A * B) * C = A * (B * C).
C5_MulAssociative ==
    (pc = "done" /\ op = "mul_chain") => ret.left = ret.right

C5_Witness ==
    /\ pc = "done"
    /\ op = "mul_chain"
    /\ args.self \in Ramps
    /\ args.third \in Ramps
    /\ args.self # args.third
    /\ Mat3_mul(args.self, args.other) # Mat3_mul(args.other, args.self)
    /\ Mat3_mul(args.other, args.third) # Mat3_mul(args.third, args.other)
    /\ \E i \in Idx, j \in Idx : Entry(ret.left, i, j) # 0

\* C6: M.apply_to(v1 + v2) = M.apply_to(v1) + M.apply_to(v2), and component i
\* of M.apply_to(v) is the dot product of row i of M with v.
C6_ApplyToLinear ==
    (pc = "done" /\ op = "apply_to")
        => /\ ret.sum = ret.parts
           /\ \A i \in Idx :
                Comp(ret.sum, i)
                  = Entry(args.self, i, 0) * (args.v1.x + args.v2.x)
                  + Entry(args.self, i, 1) * (args.v1.y + args.v2.y)
                  + Entry(args.self, i, 2) * (args.v1.z + args.v2.z)

C6_Witness ==
    /\ pc = "done"
    /\ op = "apply_to"
    /\ args.self \in Ramps
    /\ args.v1 # args.v2
    /\ \A i \in Idx : Comp(args.v1, i) # 0 /\ Comp(args.v2, i) # 0
    /\ \A i \in Idx : Comp(ret.sum, i) # 0

\* C7: rotate_z(a) has rows (cos a, -sin a, 0), (sin a, cos a, 0), (0, 0, 1)
\* and maps the unit x vector to (cos a, sin a, 0).
C7_RotateZUnitX ==
    (pc = "done" /\ op = "rotate_z")
        => /\ ret.m.x = vec3(cos(args.angle), 0 - sin(args.angle), 0)
           /\ ret.m.y = vec3(sin(args.angle), cos(args.angle), 0)
           /\ ret.m.z = vec3(0, 0, 1)
           /\ args.v = vec3(1, 0, 0)
                => ret.v = vec3(cos(args.angle), sin(args.angle), 0)

C7_Witness ==
    /\ pc = "done"
    /\ op = "rotate_z"
    /\ args.v = vec3(1, 0, 0)
    /\ sin(args.angle) = 0 - 1
    /\ ret.v = vec3(0, 0 - 1, 0)

\* C8: v[0] is the x component and v[1] the y component, for reads and for
\* writes; an index >= 2 panics, returns nothing and leaves v unchanged.
C8_IndexOrPanic ==
    [][ (pc = "call" /\ op' \in {"index", "index_mut"})
          => /\ args.index = 0
                  => /\ pc' = "done"
                     /\ ret' = [place |-> "x", value |-> args.self.x]
                     /\ args'.self.y = args.self.y
             /\ args.index = 1
                  => /\ pc' = "done"
                     /\ ret' = [place |-> "y", value |-> args.self.y]
                     /\ args'.self.x = args.self.x
             /\ args.index >= 2
                  => /\ pc' = "panic"
                     /\ ret' = NoValue
                     /\ args'.self = args.self
             /\ (op' = "index_mut" /\ pc' = "done")
                  => Deref(args'.self, ret'.place) = args.val
             /\ op' = "index" => args'.self = args.self ]_vars

C8_Witness ==
    /\ pc = "panic"
    /\ op = "index_mut"
    /\ args.index >= 2
    /\ args.val # args.self.x
    /\ args.val # args.self.y
    /\ ret = NoValue

\* a <= b of PartialOrd
Le(a, b) == a # NaN /\ b # NaN /\ a <= b

\* the larger / the smaller of two ordered scalars
ScalarMax(a, b) == IF a >= b THEN a ELSE b

ScalarMin(a, b) == IF a <= b THEN a ELSE b

\* the claim on one component: r of clamping s to [lo, hi]
InRangeOrMin(r, s, lo, hi) ==
    /\ Le(lo, hi) => (Le(lo, r) /\ Le(r, hi))
    /\ (Le(lo, hi) /\ Le(lo, s) /\ Le(s, hi)) => r = s
    /\ Gt(lo, hi) => r = lo

\* C9: M * adjoint(M) is det(M) on the diagonal and zero elsewhere.
C9_SelfTimesAdjointIsDet ==
    (pc = "done" /\ op = "adjoint")
        => \A i \in Idx, j \in Idx :
              Entry(Mat3_mul(args.self, ret), i, j)
                = IF i = j THEN Mat3_det(args.self) ELSE 0

C9_Witness ==
    /\ pc = "done"
    /\ op = "adjoint"
    /\ Mat3_det(args.self) = 4
    /\ ret # Mat3_transpose(ret)

\* C10 as stated: each component of v.clamp(min, max) lies in [min, max] and
\* is v's own when that is already inside, where min <= max; and is min's,
\* whatever v is, where min > max.
C10_ClampAnySelf ==
    (pc = "done" /\ op = "clamp")
        => /\ InRangeOrMin(ret.x, args.self.x, args.min.x, args.max.x)
           /\ InRangeOrMin(ret.y, args.self.y, args.min.y, args.max.y)

\* the amended claim on one component
ClampedOrdered(r, s, lo, hi) ==
    /\ s # NaN => InRangeOrMin(r, s, lo, hi)
    /\ (s # NaN /\ lo # NaN /\ hi # NaN) => r = ScalarMax(ScalarMin(s, hi), lo)
    /\ s = NaN => r = NaN

\* C10 (amended): for each component of v that is comparable (not NaN),
\* v.clamp(min, max) is max-of(min-of(v, max), min), lies in [min, max] and is
\* v's own when that is already inside, where min <= max, and is min's where
\* min > max; a NaN component of v stays NaN whatever min and max are.
C10_ClampPerComponent ==
    (pc = "done" /\ op = "clamp")
        => /\ ClampedOrdered(ret.x, args.self.x, args.min.x, args.max.x)
           /\ ClampedOrdered(ret.y, args.self.y, args.min.y, args.max.y)

C10_Witness ==
    /\ pc = "done"
    /\ op = "clamp"
    /\ Gt(args.min.x, args.max.x)
    /\ Lt(args.self.x, args.max.x)
    /\ ret.x = args.min.x
    /\ Lt(args.min.y, args.max.y)
    /\ Gt(args.self.y, args.min.y)
    /\ Lt(args.self.y, args.max.y)
    /\ ret.y = args.self.y

====
